---- MODULE Spec2Model ----
(***************************************************************************)
(* OceanDatabase (src/ocean_db.py): the chunked CSV importer, the row       *)
(* validator, the region classifier and the reads, over a SQLite store.     *)
(*                                                                          *)
(* The store is modelled by what one sqlite3 connection in the default      *)
(* (deferred, legacy) transaction mode gives the program: `working` is the  *)
(* content the connection self.conn sees (committed rows plus its own       *)
(* uncommitted rows), `committed` is what any other connection sees.        *)
(* Columns whose values are copied verbatim from the CSV and never tested   *)
(* (platform_number, cycle_number, status, depth, the measured value) are   *)
(* kept in the statements' column lists but not carried in the rows.        *)
(***************************************************************************)
EXTENDS Integers, Sequences, FiniteSets, TLC

VARIABLES
    schema,      \* which DDL setup_database applied: "schema.sql" or "basic"
    applyEmpty,  \* what DataFrame.apply(axis=1) on an empty frame leads to in this build
    closed,      \* close() has been called on self.conn
    committed,   \* table -> rows, as committed to the database file
    working,     \* table -> rows, as seen through self.conn
    pc,          \* position of the caller of import_csv_data
    cur,         \* the import_csv_data call in progress, or its result when pc = "returned"
    obs,         \* the result a reader got since the importer last moved
    replay,      \* the caller's log when it imports one file repeatedly
    query        \* a get_ocean_region call and its result

vars == <<schema, applyEmpty, closed, committed, working, pc, cur, obs, replay, query>>

(***************************************************************************)
(* Bounds of the model.                                                     *)
(***************************************************************************)
MaxFileRows == 2    \* data lines in one CSV file
MaxRows == 2        \* rows in the database plus lines in the file being imported
MaxReplays == 2     \* times the same file is imported in a row
BatchSizes == {1, 2}

(***************************************************************************)
(* Values.                                                                  *)
(***************************************************************************)
NaN == <<>>                  \* an empty numeric CSV field
Num(n) == <<n>>              \* a numeric CSV field
Empty == ""                  \* an empty text CSV field (pandas reads it as NaN)
NaT == [ts |-> "NaT"]        \* pandas' not-a-time
GoodDate == "2024-01-15"
BadDate == "not-a-date"

Tables == {"argo_floats", "temperature_data", "salinity_data", "oxygen_data"}
KnownKinds == {"floats", "temperature", "salinity", "oxygen"}
MeasurementKinds == {"temperature", "salinity", "oxygen"}
OtherKind == "nitrate"
Kinds == KnownKinds \cup {OtherKind}

LatMin == -90
LatMax == 90
LonMin == -180
LonMax == 180

isna_num(cell) == cell = NaN
isna_text(cell) == cell = Empty

\* pd.to_datetime(..., errors='coerce') on one cell
to_datetime(cell) ==
    IF cell = GoodDate THEN [ts |-> cell] ELSE NaT

(***************************************************************************)
(* Schema Provisioner.                                                      *)
(***************************************************************************)
NoTable == [exists |-> FALSE, cols |-> {}, key |-> {}]

\* the basic schema as it would be if it had the columns the inserts name
create_basic_schema_with_insert_columns ==
    [t \in Tables |->
        CASE t = "argo_floats" ->
               [exists |-> TRUE,
                cols |-> {"id", "float_id", "platform_number", "cycle_number",
                          "latitude", "longitude", "measurement_date",
                          "ocean_region", "status"},
                key |-> {}]
          [] t = "temperature_data" ->
               [exists |-> TRUE,
                cols |-> {"id", "float_id", "measurement_date", "depth_meters",
                          "temperature_celsius", "quality_flag", "pressure_dbar"},
                key |-> {}]
          [] OTHER -> NoTable]

create_basic_schema ==
    [t \in Tables |->
        CASE t = "argo_floats" ->
               [exists |-> TRUE,
                cols |-> {"id", "float_id", "latitude", "longitude",
                          "measurement_date", "ocean_region", "status"},
                key |-> {}]
          [] t = "temperature_data" ->
               [exists |-> TRUE,
                cols |-> {"id", "float_id", "measurement_date", "depth_meters",
                          "temperature_celsius"},
                key |-> {}]
          [] OTHER -> NoTable]

\* database/schema.sql: four tables, argo_floats keyed by float_id
schema_sql ==
    [t \in Tables |->
        CASE t = "argo_floats" ->
               [exists |-> TRUE,
                cols |-> {"id", "float_id", "platform_number", "cycle_number",
                          "latitude", "longitude", "measurement_date",
                          "ocean_region", "status"},
                key |-> {"float_id"}]
          [] t = "temperature_data" ->
               [exists |-> TRUE,
                cols |-> {"id", "float_id", "measurement_date", "depth_meters",
                          "temperature_celsius", "quality_flag", "pressure_dbar"},
                key |-> {}]
          [] t = "salinity_data" ->
               [exists |-> TRUE,
                cols |-> {"id", "float_id", "measurement_date", "depth_meters",
                          "salinity_psu", "quality_flag", "conductivity"},
                key |-> {}]
          [] OTHER ->
               [exists |-> TRUE,
                cols |-> {"id", "float_id", "measurement_date", "depth_meters",
                          "oxygen_mg_per_l", "oxygen_saturation", "quality_flag"},
                key |-> {}]]

\* the tables as setup_database leaves them
TableDefs(s) == IF s = "schema.sql" THEN schema_sql ELSE create_basic_schema

EmptyDb == [t \in Tables |-> <<>>]

(***************************************************************************)
(* Region Classifier.                                                       *)
(***************************************************************************)
\* the Atlantic test with the western bound at -80 instead of -180
InAtlanticFromMinus80(lat, lon) == -30 <= lat /\ lat <= 60 /\ -80 <= lon /\ lon <= -30

InAtlantic(lat, lon) == -30 <= lat /\ lat <= 60 /\ -180 <= lon /\ lon <= -30
InPacific(lat, lon) == -30 <= lat /\ lat <= 60 /\ 30 <= lon /\ lon <= 180
InIndian(lat, lon) == -30 <= lat /\ lat <= 30 /\ 20 <= lon /\ lon <= 120
InArctic(lat, lon) == lat >= 60
InSouthern(lat, lon) == lat <= -30

\* the classifier with the two latitude tests ahead of the rectangles
get_ocean_region_poles_first(lat, lon, region_mapping) ==
    IF lat >= 60 THEN "Arctic Ocean"
    ELSE IF lat <= -30 THEN "Southern Ocean"
    ELSE IF -30 <= lat /\ lat <= 60 /\ -180 <= lon /\ lon <= -30 THEN "Atlantic Ocean"
    ELSE IF -30 <= lat /\ lat <= 60 /\ 30 <= lon /\ lon <= 180 THEN "Pacific Ocean"
    ELSE IF -30 <= lat /\ lat <= 30 /\ 20 <= lon /\ lon <= 120 THEN "Indian Ocean"
    ELSE "Unknown"

get_ocean_region(lat, lon, region_mapping) ==
    IF InAtlantic(lat, lon) THEN "Atlantic Ocean"
    ELSE IF InPacific(lat, lon) THEN "Pacific Ocean"
    ELSE IF InIndian(lat, lon) THEN "Indian Ocean"
    ELSE IF InArctic(lat, lon) THEN "Arctic Ocean"
    ELSE IF InSouthern(lat, lon) THEN "Southern Ocean"
    ELSE "Unknown"

(***************************************************************************)
(* Row Validator/Normalizer.  A data frame is a sequence of rows.           *)
(***************************************************************************)
FloatComplete(r) ==
    ~isna_text(r.float_id) /\ ~isna_num(r.latitude) /\ ~isna_num(r.longitude)
LatInRange(r) == r.latitude[1] >= LatMin /\ r.latitude[1] <= LatMax
\* the longitude test without its lower bound
LonInRangeUpperOnly(r) == r.longitude[1] <= LonMax

LonInRange(r) == r.longitude[1] >= LonMin /\ r.longitude[1] <= LonMax
MeasurementComplete(r) == ~isna_text(r.float_id) /\ ~isna_text(r.measurement_date)
DateParsed(r) == r.measurement_date # NaT

ConvertDates(df) ==
    [i \in 1..Len(df) |-> [df[i] EXCEPT !.measurement_date = to_datetime(@)]]

clean_data(df, data_type) ==
    LET required ==
            IF data_type = "floats"
            THEN SelectSeq(SelectSeq(SelectSeq(df, FloatComplete), LatInRange),
                           LonInRange)
            ELSE IF data_type \in MeasurementKinds
            THEN SelectSeq(df, MeasurementComplete)
            ELSE df
    IN  SelectSeq(ConvertDates(required), DateParsed)

(***************************************************************************)
(* The store: one executemany of an INSERT statement.                       *)
(***************************************************************************)
Conflicts(old, new, key) == \E c \in key : old[c] = new[c]

\* one row under a conflict clause: REPLACE deletes the rows that hold the new
\* row's unique key, IGNORE skips the new row, ABORT (a plain INSERT) fails
InsertRow(rows, new, key, onConflict) ==
    LET clash == \E j \in 1..Len(rows) : Conflicts(rows[j], new, key)
    IN  IF ~clash THEN [ok |-> TRUE, rows |-> Append(rows, new)]
        ELSE IF onConflict = "REPLACE"
        THEN [ok |-> TRUE,
              rows |-> Append(SelectSeq(rows, LAMBDA old : ~Conflicts(old, new, key)),
                              new)]
        ELSE IF onConflict = "IGNORE" THEN [ok |-> TRUE, rows |-> rows]
        ELSE [ok |-> FALSE, rows |-> rows]

RECURSIVE InsertRows(_, _, _, _)
InsertRows(rows, data, key, onConflict) ==
    IF data = <<>> THEN [ok |-> TRUE, rows |-> rows]
    ELSE LET one == InsertRow(rows, Head(data), key, onConflict)
         IN  IF one.ok THEN InsertRows(one.rows, Tail(data), key, onConflict)
             ELSE one

\* the statement compiles: its table exists and has every column it names
Prepares(defs, table, cols) == defs[table].exists /\ cols \subseteq defs[table].cols

\* conn.executemany of an INSERT; a failure raises, the rows of the statement
\* written before it stay in the open transaction until the rollback
executemany(db, defs, table, cols, onConflict, data) ==
    IF ~Prepares(defs, table, cols) THEN [ok |-> FALSE, db |-> db]
    ELSE LET done == InsertRows(db[table], data, defs[table].key, onConflict)
         IN  [ok |-> done.ok, db |-> [db EXCEPT ![table] = done.rows]]

(***************************************************************************)
(* The batch inserts.                                                       *)
(***************************************************************************)
FloatTuple(row) ==
    [float_id |-> row.float_id,
     latitude |-> row.latitude[1],
     longitude |-> row.longitude[1],
     measurement_date |-> row.measurement_date,
     ocean_region |-> IF "ocean_region" \in DOMAIN row THEN row.ocean_region
                      ELSE "Unknown"]

MeasurementTuple(row) ==
    [float_id |-> row.float_id, measurement_date |-> row.measurement_date]

\* the table and the columns each INSERT statement names
table_map(data_type) ==
    CASE data_type = "temperature" -> "temperature_data"
      [] data_type = "salinity" -> "salinity_data"
      [] data_type = "oxygen" -> "oxygen_data"
      [] OTHER -> "ValueError"

TargetOf(data_type) ==
    IF data_type = "floats" THEN "argo_floats" ELSE table_map(data_type)

InsertColumns(data_type) ==
    CASE data_type = "floats" ->
           {"float_id", "platform_number", "cycle_number", "latitude", "longitude",
            "measurement_date", "ocean_region", "status"}
      [] data_type = "temperature" ->
           {"float_id", "measurement_date", "depth_meters", "temperature_celsius",
            "quality_flag", "pressure_dbar"}
      [] data_type = "salinity" ->
           {"float_id", "measurement_date", "depth_meters", "salinity_psu",
            "quality_flag", "conductivity"}
      [] data_type = "oxygen" ->
           {"float_id", "measurement_date", "depth_meters", "oxygen_mg_per_l",
            "oxygen_saturation", "quality_flag"}

\* the floats insert as INSERT OR IGNORE: the first write for an id wins
insert_float_data_or_ignore(db, defs, df) ==
    executemany(db, defs, "argo_floats", InsertColumns("floats"), "IGNORE",
                [i \in 1..Len(df) |-> FloatTuple(df[i])])

insert_float_data(db, defs, df) ==
    executemany(db, defs, "argo_floats", InsertColumns("floats"), "REPLACE",
                [i \in 1..Len(df) |-> FloatTuple(df[i])])

insert_temperature_data(db, defs, df) ==
    executemany(db, defs, "temperature_data", InsertColumns("temperature"), "ABORT",
                [i \in 1..Len(df) |-> MeasurementTuple(df[i])])

insert_salinity_data(db, defs, df) ==
    executemany(db, defs, "salinity_data", InsertColumns("salinity"), "ABORT",
                [i \in 1..Len(df) |-> MeasurementTuple(df[i])])

insert_oxygen_data(db, defs, df) ==
    executemany(db, defs, "oxygen_data", InsertColumns("oxygen"), "ABORT",
                [i \in 1..Len(df) |-> MeasurementTuple(df[i])])

\* the dispatch with temperature, the default kind, as the fall-through
InsertChunkElseTemperature(db, defs, data_type, df) ==
    CASE data_type = "floats" -> insert_float_data(db, defs, df)
      [] data_type = "salinity" -> insert_salinity_data(db, defs, df)
      [] data_type = "oxygen" -> insert_oxygen_data(db, defs, df)
      [] OTHER -> insert_temperature_data(db, defs, df)

\* lines 133-140: the insert of one cleaned chunk, by data kind
InsertChunk(db, defs, data_type, df) ==
    CASE data_type = "floats" -> insert_float_data(db, defs, df)
      [] data_type = "temperature" -> insert_temperature_data(db, defs, df)
      [] data_type = "salinity" -> insert_salinity_data(db, defs, df)
      [] data_type = "oxygen" -> insert_oxygen_data(db, defs, df)
      [] OTHER -> [ok |-> TRUE, db |-> db]

\* lines 126-130: attach ocean_region to every row of a floats chunk
Classify(df, region_mapping) ==
    [i \in 1..Len(df) |->
        df[i] @@ ("ocean_region" :>
            get_ocean_region(df[i].latitude[1], df[i].longitude[1], region_mapping))]

(***************************************************************************)
(* CSV files: the lines the model draws its input files from.               *)
(***************************************************************************)
FloatRow(id, lat, lon, date) ==
    [float_id |-> id, latitude |-> lat, longitude |-> lon, measurement_date |-> date]

FloatRows ==
    { FloatRow("F1", Num(45), Num(-60), GoodDate),
      FloatRow("F1", Num(10), Num(170), GoodDate),
      FloatRow("F2", Num(0), Num(-170), GoodDate),
      FloatRow("F2", Num(91), Num(0), GoodDate),
      FloatRow("F1", Num(0), Num(-181), GoodDate),
      FloatRow(Empty, Num(45), Num(-60), GoodDate),
      FloatRow("F2", NaN, Num(0), GoodDate),
      FloatRow("F2", Num(0), NaN, GoodDate) }

MeasurementRow(id, date) == [float_id |-> id, measurement_date |-> date]

MeasurementRows ==
    { MeasurementRow("F1", GoodDate),
      MeasurementRow("F1", BadDate),
      MeasurementRow("F1", Empty),
      MeasurementRow(Empty, GoodDate) }

\* a line with more fields than the header: the parser raises when it reads it
Malformed == [malformed |-> TRUE]
IsMalformed(line) == "malformed" \in DOMAIN line

SeqsUpTo(S, n) == UNION { [1..k -> S] : k \in 0..n }

LinesOf(data_type) ==
    (IF data_type = "floats" THEN FloatRows ELSE MeasurementRows) \cup {Malformed}

\* region_mapping (None or a non-empty dict) is read for floats only (line 126)
MappingsOf(k) == IF k = "floats" THEN BOOLEAN ELSE {FALSE}

\* the arguments of one import_csv_data call, with the file the path names;
\* the file has the header of its kind
InputsOf(k) ==
    { [exists |-> TRUE, data_type |-> k, rows |-> f, batch_size |-> b,
       region_mapping |-> m] :
        f \in SeqsUpTo(LinesOf(k), MaxFileRows), b \in BatchSizes,
        m \in MappingsOf(k) }

ExistingInputs == UNION { InputsOf(k) : k \in Kinds }

MissingInputs ==
    { [exists |-> FALSE, data_type |-> k, rows |-> <<>>, batch_size |-> b,
       region_mapping |-> m] :
        k \in Kinds, b \in BatchSizes, m \in BOOLEAN }

Inputs == ExistingInputs \cup MissingInputs

(***************************************************************************)
(* State after OceanDatabase(): connected, schema applied, nothing stored.  *)
(***************************************************************************)
NoInput ==
    [exists |-> FALSE, data_type |-> "none", rows |-> <<>>, batch_size |-> 1,
     region_mapping |-> FALSE]

NewCall(input, db) ==
    [input |-> input, rest |-> input.rows, first |-> TRUE, total_rows |-> 0,
     inserts |-> 0, commits |-> 0, rollbacks |-> 0, raisedInTry |-> FALSE,
     result |-> "none", before |-> db]

NoCall == NewCall(NoInput, EmptyDb)
NoObs == [conn |-> "none", table |-> "none", rows |-> <<>>]
NoReplay == [input |-> NoInput, counts |-> <<>>]
NoQuery == [lat |-> 0, lon |-> 0, region_mapping |-> FALSE, region |-> "none"]

\* setup_database: database/schema.sql is applied, or the basic schema without it
setup_database == schema \in {"schema.sql", "basic"}

\* __init__ on a new database file: connected, no call made yet
Connected ==
    /\ applyEmpty = "unknown"
    /\ closed = FALSE
    /\ pc = "idle"
    /\ cur = NoCall
    /\ obs = NoObs

Init ==
    /\ setup_database
    /\ Connected
    /\ committed = EmptyDb
    /\ working = EmptyDb
    /\ replay = NoReplay
    /\ query = NoQuery

DbRows(db) ==
    Len(db["argo_floats"]) + Len(db["temperature_data"])
        + Len(db["salinity_data"]) + Len(db["oxygen_data"])

Min(a, b) == IF a <= b THEN a ELSE b

(***************************************************************************)
(* import_csv_data, one action per position a reader can interleave at.     *)
(***************************************************************************)
\* the start of the call without the os.path.exists test
ImportStartWithoutPathTest(input) ==
    /\ pc = "idle"
    /\ cur' = NewCall(input, committed)
    /\ pc' = "running"
    /\ obs' = NoObs
    /\ UNCHANGED <<schema, applyEmpty, closed, committed, working, replay, query>>

\* lines 110-119: the path test, then the chunk iterator is opened
ImportStart(input) ==
    /\ pc = "idle"
    /\ IF ~input.exists
       THEN /\ cur' = [NewCall(input, committed) EXCEPT !.result = "False"]
            /\ pc' = "returned"
       ELSE /\ cur' = NewCall(input, committed)
            /\ pc' = "running"
    /\ obs' = NoObs
    /\ UNCHANGED <<schema, applyEmpty, closed, committed, working, replay, query>>

\* lines 151-154: the except clause; rollback on a closed connection raises
Handler(call) ==
    /\ cur' = [call EXCEPT !.raisedInTry = TRUE,
                           !.rollbacks = @ + 1,
                           !.result = IF closed THEN "raised" ELSE "False"]
    /\ working' = committed
    /\ pc' = "returned"
    /\ UNCHANGED committed

\* lines 121-145: one turn of the loop over the chunks
ImportChunk ==
    /\ pc = "running"
    /\ cur.first \/ cur.rest # <<>>
    /\ LET n == Min(cur.input.batch_size, Len(cur.rest))
           lines == SubSeq(cur.rest, 1, n)
           data_type == cur.input.data_type
           labels == cur.input.region_mapping /\ data_type = "floats"
           readFails == \E i \in 1..n : IsMalformed(lines[i])
           chunk == IF readFails THEN <<>> ELSE clean_data(lines, data_type)
           applies == ~readFails /\ labels /\ chunk = <<>>
           df == IF labels THEN Classify(chunk, cur.input.region_mapping) ELSE chunk
           inserting == data_type \in KnownKinds
           ins == IF closed THEN [ok |-> FALSE, db |-> working]
                  ELSE InsertChunk(working, TableDefs(schema), data_type, df)
       IN  \E a \in (IF applies /\ applyEmpty = "unknown" THEN {"raises", "no rows"}
                     ELSE {applyEmpty}) :
            /\ applyEmpty' = a
            /\ IF readFails \/ (applies /\ a = "raises")
               THEN Handler(cur)
               ELSE IF inserting /\ ~ins.ok
               THEN Handler([cur EXCEPT !.inserts = @ + 1])
               ELSE /\ working' = ins.db
                    /\ cur' = [cur EXCEPT !.rest = SubSeq(@, n + 1, Len(@)),
                                          !.first = FALSE,
                                          !.total_rows = @ + Len(df),
                                          !.inserts = IF inserting THEN @ + 1 ELSE @]
                    /\ UNCHANGED <<pc, committed>>
    /\ obs' = NoObs
    /\ UNCHANGED <<schema, closed, replay, query>>

\* lines 147-149: the commit after the last chunk
ImportCommit ==
    /\ pc = "running"
    /\ ~cur.first /\ cur.rest = <<>>
    /\ IF closed
       THEN Handler([cur EXCEPT !.commits = @ + 1])
       ELSE /\ committed' = working
            /\ cur' = [cur EXCEPT !.commits = @ + 1, !.result = "True"]
            /\ pc' = "returned"
            /\ UNCHANGED working
    /\ obs' = NoObs
    /\ UNCHANGED <<schema, applyEmpty, closed, replay, query>>

\* the caller takes the result (or the exception) and goes on
Return ==
    /\ pc = "returned"
    /\ pc' = "idle"
    /\ cur' = NoCall
    /\ obs' = NoObs
    /\ replay' = IF replay = NoReplay THEN replay
                 ELSE [replay EXCEPT !.counts = Append(@, Len(working["argo_floats"]))]
    /\ UNCHANGED <<schema, applyEmpty, closed, committed, working, query>>

\* close(): the connection is closed, what it had not committed is gone
close ==
    /\ pc = "idle"
    /\ ~closed
    /\ closed' = TRUE
    /\ working' = committed
    /\ UNCHANGED <<schema, applyEmpty, committed, pc, cur, obs, replay, query>>

(***************************************************************************)
(* Query layer, run by a second thread while an import is in progress.      *)
(***************************************************************************)
\* SELECT * FROM argo_floats through a connection that sees `view`
get_float_data(view) == view["argo_floats"]

\* SELECT * FROM the kind's table; an unknown kind is a usage error
get_measurement_data(view, data_type) ==
    IF table_map(data_type) = "ValueError"
    THEN [raised |-> TRUE, rows |-> <<>>]
    ELSE [raised |-> FALSE, rows |-> view[table_map(data_type)]]

Select(view, table) ==
    IF table = "argo_floats" THEN get_float_data(view)
    ELSE get_measurement_data(view,
             CHOOSE k \in MeasurementKinds : table_map(k) = table).rows

\* a read, through a connection that sees `view`, of the table being imported
Read(conn, view) ==
    /\ pc = "running"
    /\ LET t == TargetOf(cur.input.data_type)
       IN  /\ t \in Tables
           /\ TableDefs(schema)[t].exists
           /\ obs' = [conn |-> conn, table |-> t, rows |-> Select(view, t)]
    /\ UNCHANGED <<schema, applyEmpty, closed, committed, working, pc, cur, replay, query>>

\* a read through self.conn, the connection the import writes through
ReadShared == ~closed /\ Read("shared", working)

\* a read through a connection of its own to the same database file
ReadSeparate == Read("separate", committed)

ImportAny ==
    /\ pc = "idle"
    /\ replay = NoReplay
    /\ \E input \in Inputs :
        /\ DbRows(working) + Len(input.rows) <= MaxRows
        /\ ImportStart(input)

Next ==
    \/ ImportAny
    \/ ImportChunk
    \/ ImportCommit
    \/ Return
    \/ close
    \/ ReadShared
    \/ ReadSeparate

Spec == Init /\ [][Next]_vars

(***************************************************************************)
(* A caller that imports one floats file MaxReplays times in a row, into a  *)
(* database that earlier imports may have filled.                           *)
(***************************************************************************)
Stored(id, lat, lon, region) ==
    [float_id |-> id, latitude |-> lat, longitude |-> lon,
     measurement_date |-> to_datetime(GoodDate), ocean_region |-> region]

SeedFloats ==
    { <<>>,
      <<Stored("F1", 10, 170, "Pacific Ocean")>>,
      <<Stored("F2", 0, -170, "Unknown"), Stored("F1", 45, -60, "Unknown")>> }

InitReimport ==
    /\ setup_database
    /\ Connected
    /\ \E seed \in (IF schema = "schema.sql" THEN SeedFloats ELSE {<<>>}) :
        /\ committed = [EmptyDb EXCEPT !["argo_floats"] = seed]
        /\ working = committed
    /\ replay \in { [input |-> i, counts |-> <<>>] : i \in InputsOf("floats") }
    /\ query = NoQuery

ImportAgain ==
    /\ pc = "idle"
    /\ replay # NoReplay
    /\ Len(replay.counts) < MaxReplays
    /\ ImportStart(replay.input)

NextReimport ==
    \/ ImportAgain
    \/ ImportChunk
    \/ ImportCommit
    \/ Return
    \/ close

SpecReimport == InitReimport /\ [][NextReimport]_vars

(***************************************************************************)
(* A caller of get_ocean_region on every whole-degree coordinate pair.      *)
(***************************************************************************)
RegionMappings == {FALSE, TRUE}

InitRegion ==
    /\ schema = "schema.sql"
    /\ Connected
    /\ committed = EmptyDb
    /\ working = EmptyDb
    /\ replay = NoReplay
    /\ query \in [lat : LatMin..LatMax, lon : LonMin..LonMax,
                  region_mapping : RegionMappings, region : {"none"}]

ClassifyPoint ==
    /\ query.region = "none"
    /\ query' = [query EXCEPT
                    !.region = get_ocean_region(query.lat, query.lon,
                                                query.region_mapping)]
    /\ UNCHANGED <<schema, applyEmpty, closed, committed, working, pc, cur, obs, replay>>

NextRegion == ClassifyPoint

SpecRegion == InitRegion /\ [][NextRegion]_vars

(***************************************************************************)
(* Properties.                                                              *)
(***************************************************************************)
Returned == pc = "returned"
FileReadable(rows) == \A i \in 1..Len(rows) : ~IsMalformed(rows[i])

\* C1: an import of an existing file in which a step raised returns False
\* (never raises) and leaves all four tables as they were before the call,
\* in any state of the database object, a closed one included.
C1_FailureReturnsFalseAndRollsBack ==
    (Returned /\ cur.input.exists /\ cur.raisedInTry)
        => /\ cur.result = "False"
           /\ committed = cur.before
           /\ working = cur.before

\* the rows of the file being imported that no chunk has delivered yet and
\* that clean_data would keep
PendingRows ==
    clean_data(SelectSeq(cur.rest, LAMBDA line : ~IsMalformed(line)),
               cur.input.data_type)

\* the tables as self.conn will see them once the pending rows are inserted
AfterAllChunks ==
    LET df == IF cur.input.region_mapping /\ cur.input.data_type = "floats"
              THEN Classify(PendingRows, cur.input.region_mapping)
              ELSE PendingRows
    IN  InsertChunk(working, TableDefs(schema), cur.input.data_type, df).db

\* C2: a read interleaved with an import sees the table without any of the
\* file's rows or with all of them, through self.conn as well as through a
\* connection of its own.
C2_ReadsSeeAllOrNothing ==
    (pc = "running" /\ obs # NoObs)
        => \/ obs.rows = committed[obs.table]
           \/ obs.rows = AfterAllChunks[obs.table]

AtMostOnePerId(rows) ==
    \A i, j \in 1..Len(rows) : rows[i].float_id = rows[j].float_id => i = j

\* what a floats file asks to be stored: its cleaned rows, labelled when a
\* region mapping is given
Upserts(input) ==
    LET kept == clean_data(SelectSeq(input.rows, LAMBDA line : ~IsMalformed(line)),
                           "floats")
        df == IF input.region_mapping THEN Classify(kept, input.region_mapping)
              ELSE kept
    IN  [i \in 1..Len(df) |-> FloatTuple(df[i])]

LastWriteWins(rows, wanted) ==
    \A i \in 1..Len(wanted) :
        (\A j \in (i + 1)..Len(wanted) : wanted[j].float_id # wanted[i].float_id)
            => \E k \in 1..Len(rows) : rows[k] = wanted[i]

\* C3: importing the same floats CSV again leaves the number of rows of
\* argo_floats where the first import left it; there is at most one row per
\* float_id, and after a successful import the row of an id is the last one
\* the file has for it.  Under either schema the program provisions.
C3_ReimportKeepsRowCount ==
    /\ \A i \in 1..Len(replay.counts) : replay.counts[i] = replay.counts[1]
    /\ AtMostOnePerId(working["argo_floats"])
    /\ AtMostOnePerId(committed["argo_floats"])
    /\ (Returned /\ cur.result = "True")
           => LastWriteWins(committed["argo_floats"], Upserts(cur.input))

C3_Witness ==
    /\ Len(replay.counts) = 2
    /\ replay.counts[2] = 2
    /\ pc = "idle"
    /\ \E i, j \in 1..Len(replay.input.rows) :
          /\ i < j
          /\ FileReadable(replay.input.rows)
          /\ replay.input.rows[i].float_id = "F1"
          /\ replay.input.rows[j].float_id = "F2"
          /\ Len(Upserts(replay.input)) = 2

InBounds(rows) ==
    \A i \in 1..Len(rows) :
        /\ rows[i].latitude >= -90 /\ rows[i].latitude <= 90
        /\ rows[i].longitude >= -180 /\ rows[i].longitude <= 180
        /\ rows[i].float_id # Empty

\* C4: every row of argo_floats, committed or not, has its latitude in
\* [-90, 90], its longitude in [-180, 180] and a float_id.
C4_StoredCoordinatesInBounds ==
    InBounds(committed["argo_floats"]) /\ InBounds(working["argo_floats"])

OutOfBounds(line) ==
    /\ ~IsMalformed(line)
    /\ line.latitude # NaN /\ line.longitude # NaN
    /\ \/ line.latitude[1] > 90 \/ line.latitude[1] < -90
       \/ line.longitude[1] > 180 \/ line.longitude[1] < -180

C4_Witness ==
    /\ Returned /\ cur.result = "True" /\ cur.input.data_type = "floats"
    /\ Len(cur.input.rows) = 2
    /\ OutOfBounds(cur.input.rows[1])
    /\ Len(committed["argo_floats"]) = Len(cur.before["argo_floats"]) + 1

RegionLabels ==
    {"Atlantic Ocean", "Pacific Ocean", "Indian Ocean", "Arctic Ocean",
     "Southern Ocean", "Unknown"}

Asked(lat, lon) == query.region # "none" /\ query.lat = lat /\ query.lon = lon

\* C5: get_ocean_region gives every coordinate pair exactly one of the six
\* labels, that of the first test that matches in the order Atlantic,
\* Pacific, Indian, Arctic, Southern, else Unknown, whatever region_mapping
\* is; (45,-60) is Atlantic, (10,170) Pacific, (70,0) Arctic, (-50,0) Southern.
C5_FirstMatchingRegion ==
    query.region # "none" =>
        LET lat == query.lat
            lon == query.lon
            r == query.region
        IN  /\ r \in RegionLabels
            /\ InAtlantic(lat, lon) => r = "Atlantic Ocean"
            /\ (~InAtlantic(lat, lon) /\ InPacific(lat, lon)) => r = "Pacific Ocean"
            /\ (~InAtlantic(lat, lon) /\ ~InPacific(lat, lon) /\ InIndian(lat, lon))
                   => r = "Indian Ocean"
            /\ (~InAtlantic(lat, lon) /\ ~InPacific(lat, lon) /\ ~InIndian(lat, lon)
                   /\ InArctic(lat, lon)) => r = "Arctic Ocean"
            /\ (~InAtlantic(lat, lon) /\ ~InPacific(lat, lon) /\ ~InIndian(lat, lon)
                   /\ ~InArctic(lat, lon) /\ InSouthern(lat, lon))
                   => r = "Southern Ocean"
            /\ (~InAtlantic(lat, lon) /\ ~InPacific(lat, lon) /\ ~InIndian(lat, lon)
                   /\ ~InArctic(lat, lon) /\ ~InSouthern(lat, lon)) => r = "Unknown"
            /\ \A m \in RegionMappings : r = get_ocean_region(lat, lon, m)
            /\ Asked(45, -60) => r = "Atlantic Ocean"
            /\ Asked(10, 170) => r = "Pacific Ocean"
            /\ Asked(70, 0) => r = "Arctic Ocean"
            /\ Asked(-50, 0) => r = "Southern Ocean"

C5_Witness == Asked(10, 170) /\ query.region = "Pacific Ocean" /\ query.region_mapping

\* C6 as the spec has it: (0, -170) matches none of the five tests and is
\* "Unknown".
C6_Original == Asked(0, -170) => query.region = "Unknown"

\* C6 as the code has it: (0, -170) lies in the Atlantic rectangle
\* (-30 <= lat <= 60, -180 <= lon <= -30), the first test, and is
\* "Atlantic Ocean".
C6_AtlanticTestCatchesIt ==
    Asked(0, -170) => InAtlantic(0, -170) /\ query.region = "Atlantic Ocean"

C6_Witness == Asked(0, -170) /\ ~query.region_mapping

\* C7: an import of a path that does not exist returns False without a read,
\* an insert, a commit or a rollback, and every table is as it was, whatever
\* the kind and whatever ran before.
C7_MissingFileWritesNothing ==
    (Returned /\ ~cur.input.exists)
        => /\ cur.result = "False"
           /\ cur.first /\ cur.total_rows = 0
           /\ cur.inserts = 0 /\ cur.commits = 0 /\ cur.rollbacks = 0
           /\ ~cur.raisedInTry
           /\ committed = cur.before
           /\ working = cur.before

C7_Witness ==
    /\ Returned /\ ~cur.input.exists /\ cur.result = "False"
    /\ cur.input.data_type = "floats"
    /\ Len(committed["temperature_data"]) = 1

GoodMeasurement(line) ==
    ~IsMalformed(line) /\ line.float_id # Empty /\ line.measurement_date = GoodDate

NoNulls(rows) ==
    \A i \in 1..Len(rows) : rows[i].float_id # Empty /\ rows[i].measurement_date # NaT

HasBadDate(rows) == \E i \in 1..Len(rows) : rows[i].measurement_date = BadDate

\* C8: an import of a measurement file with unparsable dates in it, whose
\* lines all parse as CSV, returns True and adds to the kind's table as many
\* rows as the file has lines with a float_id and a parseable
\* measurement_date; no stored measurement lacks either.
C8_BadDatesDroppedNotFatal ==
    /\ \A t \in Tables \ {"argo_floats"} : NoNulls(committed[t]) /\ NoNulls(working[t])
    /\ (Returned /\ ~closed /\ cur.input.exists
          /\ cur.input.data_type \in MeasurementKinds
          /\ FileReadable(cur.input.rows) /\ HasBadDate(cur.input.rows))
        => LET t == table_map(cur.input.data_type)
           IN  /\ cur.result = "True"
               /\ Len(committed[t]) =
                      Len(cur.before[t])
                          + Len(SelectSeq(cur.input.rows, GoodMeasurement))

\* C8 with database/schema.sql applied: the claim holds there
C8_WithSchemaSql == schema = "schema.sql" => C8_BadDatesDroppedNotFatal

\* C9: under the basic schema no INSERT statement of the program compiles, an
\* import that reaches an insert fails (it returns False on an open
\* connection) and all tables stay empty.
C9_BasicSchemaRejectsEveryInsert ==
    schema = "basic" =>
        /\ \A k \in KnownKinds :
              ~Prepares(TableDefs(schema), TargetOf(k), InsertColumns(k))
        /\ committed = EmptyDb /\ working = EmptyDb
        /\ (Returned /\ cur.inserts > 0)
              => /\ cur.result # "True"
                 /\ ~closed => cur.result = "False"

C9_Witness ==
    /\ schema = "basic" /\ Returned /\ ~closed
    /\ cur.input.data_type = "temperature"
    /\ cur.input.rows = <<MeasurementRow("F1", GoodDate)>>
    /\ cur.inserts = 1 /\ cur.result = "False"

\* C10: an import of a readable CSV under a kind that is none of floats,
\* temperature, salinity, oxygen inserts nothing for any chunk, counts the
\* cleaned rows, commits and returns True with every table unchanged, where
\* get_measurement_data raises for the same kind.
C10_UnknownKindSucceedsEmpty ==
    cur.input.data_type \notin (KnownKinds \cup {"none"}) =>
        /\ get_measurement_data(working, cur.input.data_type).raised
        /\ cur.inserts = 0
        /\ working = cur.before /\ committed = cur.before
        /\ (Returned /\ ~closed /\ cur.input.exists /\ FileReadable(cur.input.rows))
              => /\ cur.result = "True"
                 /\ cur.commits = 1 /\ cur.rollbacks = 0
                 /\ cur.total_rows = Len(clean_data(cur.input.rows,
                                                    cur.input.data_type))

C10_Witness ==
    /\ Returned /\ ~closed /\ cur.input.exists
    /\ cur.input.data_type = OtherKind
    /\ cur.result = "True" /\ cur.total_rows = 2 /\ cur.commits = 1
    /\ Len(cur.input.rows) = 2 /\ cur.input.batch_size = 1

C8_Witness ==
    /\ schema = "schema.sql" /\ Returned /\ cur.result = "True"
    /\ cur.input.data_type = "salinity"
    /\ cur.input.rows = <<MeasurementRow("F1", BadDate), MeasurementRow("F1", GoodDate)>>
    /\ Len(committed["salinity_data"]) = Len(cur.before["salinity_data"]) + 1

\* C1 on a connection that is open: the failure is reported and rolled back
C1_WhileOpen == ~closed => C1_FailureReturnsFalseAndRollsBack

C1_Witness ==
    /\ Returned /\ ~closed /\ cur.raisedInTry /\ cur.result = "False"
    /\ cur.input.batch_size = 1 /\ Len(cur.input.rows) = 2
    /\ cur.input.data_type = "oxygen"
    /\ cur.total_rows = 1 /\ IsMalformed(cur.input.rows[2])

\* C2 for a reader on a connection of its own
C2_SeparateConnection == obs.conn = "separate" => C2_ReadsSeeAllOrNothing
====
